---- MODULE Spec2Model ----
(***************************************************************************)
(* Model of the Scribble C++ executor, src/executors/cpp/runner.cpp.       *)
(*                                                                         *)
(* A judge process reads CODE and TEST_CASES from its environment, decodes *)
(* CODE, writes it behind a fixed scaffold to /tmp/user_code.cpp, runs g++ *)
(* through popen, and prints one JSON record on standard output.           *)
(*                                                                         *)
(* Text is a sequence of character codes (0..255).  A JSON record is a     *)
(* TLA+ record with the keys the code prints, in which error_message holds *)
(* the text between the quotes exactly as printed.                         *)
(***************************************************************************)
EXTENDS Integers, Sequences, FiniteSets, TLC

VARIABLES
    codeB64,            \* getenv("CODE") of each process: [set, val]
    testCasesJson,      \* getenv("TEST_CASES") of each process
    pc,                 \* position of each process in main
    code,               \* main: std::string code
    fs,                 \* the filesystem shared by the processes: path -> file
    clock,              \* high_resolution_clock, in milliseconds
    compileStart,       \* main: compileStart
    compileEnd,         \* main: compileEnd
    compilerInput,      \* what the g++ child of each process read from sourceFile
    pipe,               \* the g++ child of each process: whether it has run, its exit
                        \* status and what it printed
    compileOutput,      \* main: compileOutput
    compileStatus,      \* main: compileStatus
    compilationTimeMs,  \* main: compilationTimeMs
    out,                \* records each process wrote to std::cout
    exitCode            \* value main returned, NoExit while it runs

vars == <<codeB64, testCasesJson, pc, code, fs, clock, compileStart, compileEnd, compilerInput,
          pipe, compileOutput, compileStatus, compilationTimeMs, out, exitCode>>

----------------------------------------------------------------------------
(* Bounds of the model.                                                    *)

MaxLen == 6          \* longest CODE value of SpecDecode
MaxShortLen == 3     \* longest CODE value of Spec
MaxTests == 2        \* most test cases in TEST_CASES
MaxCompileMs == 1    \* longest wall-clock time of one compiler run

Procs == {"judgeA", "judgeB"}

\* Characters CODE is drawn from: 'A' (digit 0), '/' (digit 63), the padding
\* character '=' and '!', the last two being outside the base64 alphabet.
Alphabet == {65, 47, 61, 33}
\* The same without '!', for the long values of SpecDecode
DecodeAlphabet == {65, 47, 61}
\* Well-formed base64 of one, two and three bytes: "AA==", "//A=", "A/A/", "////"
PaddedCodes == {<<65, 65, 61, 61>>, <<47, 47, 65, 61>>, <<65, 47, 65, 47>>, <<47, 47, 47, 47>>}

RECURSIVE StringsUpTo(_, _)
StringsUpTo(S, n) ==
    IF n = 0 THEN {<< >>}
    ELSE LET shorter == StringsUpTo(S, n - 1)
         IN  shorter \cup {Append(s, c) : s \in {t \in shorter : Len(t) = n - 1}, c \in S}

Absent == [set |-> FALSE, val |-> << >>]
EnvValues(strings) == {Absent} \cup {[set |-> TRUE, val |-> s] : s \in strings}

\* Verdicts a test case can get (spec.md section 3, TestVerdict).
Verdicts == {"accepted", "wrong_answer", "runtime_error"}

\* TEST_CASES: absent, malformed text, or a well-formed list of test cases.  The
\* code never looks inside the value; each case carries the verdict that running
\* the compiled artifact on it would earn, which is what the properties of the
\* test stage compare the report with.
RECURSIVE CaseLists(_)
CaseLists(n) ==
    IF n = 0 THEN {<< >>}
    ELSE LET shorter == CaseLists(n - 1)
         IN  shorter \cup {Append(s, [id |-> n, outcome |-> v]) :
                              s \in {t \in shorter : Len(t) = n - 1}, v \in Verdicts}

NoTests == [set |-> FALSE, wellFormed |-> FALSE, cases |-> << >>]
MalformedTests == [set |-> TRUE, wellFormed |-> FALSE, cases |-> << >>]
TestPayloads ==
    {NoTests, MalformedTests}
        \cup {[set |-> TRUE, wellFormed |-> TRUE, cases |-> cs] : cs \in CaseLists(MaxTests)}

NoExit == -1

----------------------------------------------------------------------------
(* base64_decode                                                           *)

base64_chars ==
    [i \in 1..26 |-> 64 + i] \o [i \in 1..26 |-> 96 + i] \o [i \in 1..10 |-> 47 + i]
        \o <<43, 47>>

\* std::vector<int> T(256, -1); T[base64_chars[i]] = i
T == [c \in 0..255 |->
        IF \E i \in 1..64 : base64_chars[i] = c
        THEN (CHOOSE i \in 1..64 : base64_chars[i] = c) - 1
        ELSE -1]

\* (val << 6) on a 32-bit int: the low 26 bits move up, bit 25 becomes the sign.
\* val is never masked, so from the sixth character on the shift leaves the range
\* of int; g++ and clang++ define that shift as the two's complement wrap.
Shl6(val) ==
    LET low == val % (2^26)
    IN  IF low >= 2^25 THEN (low - 2^26) * 64 ELSE low * 64

\* (val >> valb) & 0xFF, the shift being arithmetic
ByteAt(val, valb) == (val \div (2^valb)) % 256

RECURSIVE DecodeLoop(_, _, _, _, _)
DecodeLoop(encoded, i, val, valb, decoded) ==
    IF i > Len(encoded) THEN decoded
    ELSE IF T[encoded[i]] = -1 THEN decoded
    ELSE LET v == Shl6(val) + T[encoded[i]]
             b == valb + 6
         IN  IF b >= 0
             THEN DecodeLoop(encoded, i + 1, v, b - 8, Append(decoded, ByteAt(v, b)))
             ELSE DecodeLoop(encoded, i + 1, v, b, decoded)

\* base64_decode, stepping over a character outside the alphabet instead of
\* stopping at it.
base64_decode_skipping(encoded) ==
    DecodeLoop(SelectSeq(encoded, LAMBDA c : T[c] # -1), 1, 0, -8, << >>)

base64_decode(encoded) == DecodeLoop(encoded, 1, 0, -8, << >>)

----------------------------------------------------------------------------
(* escapeJson and printError                                               *)

\* EscapeChar, without the case for the backslash.
EscapeCharKeepingBackslash(c) ==
    CASE c = 34 -> <<92, 34>>
      [] c = 10 -> <<92, 110>>
      [] c = 13 -> <<92, 114>>
      [] c = 9  -> <<92, 116>>
      [] OTHER  -> <<c>>

EscapeChar(c) ==
    CASE c = 34 -> <<92, 34>>
      [] c = 92 -> <<92, 92>>
      [] c = 10 -> <<92, 110>>
      [] c = 13 -> <<92, 114>>
      [] c = 9  -> <<92, 116>>
      [] OTHER  -> <<c>>

\* for (char c : s) result += ...: the escapes of the characters, in order (the
\* string is split in halves to keep the evaluation shallow)
RECURSIVE escapeJson(_)
escapeJson(s) ==
    IF s = << >> THEN << >>
    ELSE IF Len(s) = 1 THEN EscapeChar(s[1])
    ELSE LET half == Len(s) \div 2
         IN  escapeJson(SubSeq(s, 1, half)) \o escapeJson(SubSeq(s, half + 1, Len(s)))

\* printError, printing no error_message.
printErrorWithoutMessage(status, message, compileMs, executionMs) ==
    [status |-> status,
     compilation_time_ms |-> compileMs,
     execution_time_ms |-> executionMs,
     memory_used_kb |-> 0,
     tests_passed |-> 0,
     tests_total |-> 0]

printError(status, message, compileMs, executionMs) ==
    [status |-> status,
     error_message |-> escapeJson(message),
     compilation_time_ms |-> compileMs,
     execution_time_ms |-> executionMs,
     memory_used_kb |-> 0,
     tests_passed |-> 0,
     tests_total |-> 0]

NoCodeProvided ==
    <<78, 111, 32, 99, 111, 100, 101, 32, 112, 114, 111, 118, 105, 100, 101, 100>>
FailedToWriteSourceFile ==
    <<70, 97, 105, 108, 101, 100, 32, 116, 111, 32, 119, 114, 105, 116, 101, 32,
      115, 111, 117, 114, 99, 101, 32, 102, 105, 108, 101>>
FailedToStartCompiler ==
    <<70, 97, 105, 108, 101, 100, 32, 116, 111, 32, 115, 116, 97, 114, 116, 32,
      99, 111, 109, 112, 105, 108, 101, 114>>

----------------------------------------------------------------------------
(* The compiler's output as main reads it from the pipe                    *)

BufferSize == 128

\* One fgets(buffer, sizeof(buffer), pipe): at most BufferSize - 1 characters,
\* ending after the first newline.
FgetsLen(stream) ==
    LET limit == IF Len(stream) < BufferSize - 1 THEN Len(stream) ELSE BufferSize - 1
        newlines == {i \in 1..limit : stream[i] = 10}
    IN  IF newlines = {} THEN limit
        ELSE CHOOSE i \in newlines : \A j \in newlines : i <= j

\* compileOutput += buffer appends the buffer as a C string: up to its first NUL.
CString(buffer) ==
    LET nuls == {i \in 1..Len(buffer) : buffer[i] = 0}
    IN  IF nuls = {} THEN buffer
        ELSE SubSeq(buffer, 1, (CHOOSE i \in nuls : \A j \in nuls : i <= j) - 1)

RECURSIVE ReadPipe(_)
ReadPipe(stream) ==
    IF stream = << >> THEN << >>
    ELSE LET n == FgetsLen(stream)
         IN  CString(SubSeq(stream, 1, n)) \o ReadPipe(SubSeq(stream, n + 1, Len(stream)))

\* What g++ may print on stdout+stderr: nothing; a line with a quote, a
\* backslash followed by 'n', a tab and a carriage return; a line longer than
\* the buffer; a line holding a NUL.
ToolchainOutputs ==
    {<< >>,
     <<34, 92, 110, 9, 13, 10>>,
     [i \in 1..130 |-> 101] \o <<10>>,
     <<101, 0, 102, 10>>}

\* What pclose returns: 0, or the wait status of exit code 1.
ToolchainResults == [ran : {TRUE}, status : {0, 256}, output : ToolchainOutputs]

NoPipe == [ran |-> FALSE, status |-> 0, output |-> << >>]

----------------------------------------------------------------------------
(* getMemoryUsage                                                          *)

\* /sys/fs/cgroup/memory.peak: whether it opens, and the number read from it
CgroupFiles == {[open |-> FALSE, bytes |-> 0], [open |-> TRUE, bytes |-> 4096000]}
\* /proc/self/status: whether it has a VmRSS: line, and the number on it
ProcStatusFiles == {[vmRSS |-> FALSE, kb |-> 0], [vmRSS |-> TRUE, kb |-> 3500]}

getCgroupsMemoryPeak(cgroup) == IF cgroup.open THEN cgroup.bytes \div 1024 ELSE -1

getMemoryUsage(cgroup, status) ==
    LET cgroupMem == getCgroupsMemoryPeak(cgroup)
    IN  IF cgroupMem >= 0 THEN cgroupMem
        ELSE IF status.vmRSS THEN status.kb
        ELSE 0

----------------------------------------------------------------------------
(* The filesystem                                                          *)

\* The lines main writes before the user's code.  Every process writes the same
\* lines at offset 0, so a file is kept as the scaffold it starts with (empty
\* once truncated) and the characters after it.
Scaffold ==
    <<"#include <iostream>", "#include <vector>", "#include <string>",
      "#include <algorithm>", "#include <cmath>", "#include <map>", "#include <set>",
      "#include <queue>", "#include <stack>", "using namespace std;", "">>

EmptyFile == [head |-> << >>, body |-> << >>]

sourceFile(p) == "/tmp/user_code.cpp"
execFile(p) == "/tmp/user_code"

Paths == {sourceFile(p) : p \in Procs} \cup {execFile(p) : p \in Procs}

\* write() of `new` at offset 0 of a file holding `old`
Overlay(old, new) == new \o SubSeq(old, Len(new) + 1, Len(old))

\* The file main means to hand to the compiler: scaffold, code, newline.
WrappedSource(c) == [head |-> Scaffold, body |-> c \o <<10>>]

----------------------------------------------------------------------------
(* Initial states                                                          *)

InitWith(codes, tests, running) ==
    /\ \E c \in [running -> codes] :
          codeB64 = [p \in Procs |-> IF p \in running THEN c[p] ELSE Absent]
    /\ \E t \in [running -> tests] :
          testCasesJson = [p \in Procs |-> IF p \in running THEN t[p] ELSE NoTests]
    /\ pc = [p \in Procs |-> IF p \in running THEN "start" ELSE "idle"]
    /\ code = [p \in Procs |-> << >>]
    /\ fs = [f \in Paths |-> EmptyFile]
    /\ clock = 0
    /\ compileStart = [p \in Procs |-> 0]
    /\ compileEnd = [p \in Procs |-> 0]
    /\ compilerInput = [p \in Procs |-> EmptyFile]
    /\ pipe = [p \in Procs |-> NoPipe]
    /\ compileOutput = [p \in Procs |-> << >>]
    /\ compileStatus = [p \in Procs |-> 0]
    /\ compilationTimeMs = [p \in Procs |-> 0]
    /\ out = [p \in Procs |-> << >>]
    /\ exitCode = [p \in Procs |-> NoExit]

\* One judge process; CODE absent, any string of at most MaxShortLen characters or
\* well-formed base64; every TEST_CASES
Init ==
    InitWith(EnvValues(StringsUpTo(Alphabet, MaxShortLen) \cup PaddedCodes), TestPayloads,
             {"judgeA"})

\* One judge process; CODE absent or any string of at most MaxLen characters (with
\* '!' in the first three); no TEST_CASES
InitDecode ==
    InitWith(EnvValues(StringsUpTo(DecodeAlphabet, MaxLen) \cup StringsUpTo(Alphabet, 3)),
             {NoTests}, {"judgeA"})

\* Two judge processes on one filesystem, with sources of different lengths
SharedCodes == EnvValues({<<65, 47>>, <<47, 47, 47, 47>>}) \ {Absent}
InitShared == InitWith(SharedCodes, {NoTests}, Procs)

----------------------------------------------------------------------------
(* main, one action per step between two effects other processes can see   *)

\* Fail, leaving without a record.
FailSilently(p, message, compileMs) ==
    /\ out' = out
    /\ exitCode' = [exitCode EXCEPT ![p] = 0]
    /\ pc' = [pc EXCEPT ![p] = "done"]

\* printError(...); return 0;
Fail(p, message, compileMs) ==
    /\ out' = [out EXCEPT ![p] = Append(@, printError("compilation_error", message, compileMs, 0))]
    /\ exitCode' = [exitCode EXCEPT ![p] = 0]
    /\ pc' = [pc EXCEPT ![p] = "done"]

\* lines 96-105: read the environment, reject a missing CODE, decode
Start(p) ==
    /\ pc[p] = "start"
    /\ IF ~codeB64[p].set \/ Len(codeB64[p].val) = 0
       THEN /\ Fail(p, NoCodeProvided, 0)
            /\ UNCHANGED code
       ELSE /\ code' = [code EXCEPT ![p] = base64_decode(codeB64[p].val)]
            /\ pc' = [pc EXCEPT ![p] = "open"]
            /\ UNCHANGED <<out, exitCode>>
    /\ UNCHANGED <<codeB64, testCasesJson, fs, clock, compileStart, compileEnd, compilerInput, pipe,
                   compileOutput, compileStatus, compilationTimeMs>>

\* lines 108-115: std::ofstream outFile(sourceFile) truncates the file, or fails
OpenSource(p) ==
    /\ pc[p] = "open"
    /\ \E opened \in BOOLEAN :
          IF opened
          THEN /\ fs' = [fs EXCEPT ![sourceFile(p)] = EmptyFile]
               /\ pc' = [pc EXCEPT ![p] = "write"]
               /\ UNCHANGED <<out, exitCode>>
          ELSE /\ Fail(p, FailedToWriteSourceFile, 0)
               /\ UNCHANGED fs
    /\ UNCHANGED <<codeB64, testCasesJson, code, clock, compileStart, compileEnd, compilerInput, pipe,
                   compileOutput, compileStatus, compilationTimeMs>>

\* lines 117-129: the scaffold and the code, shorter together than the buffer of
\* the stream, reach the file at close(), written at offset 0 of whatever the file
\* holds by then
WriteSource(p) ==
    /\ pc[p] = "write"
    /\ fs' = [fs EXCEPT ![sourceFile(p)] =
                 [head |-> Scaffold, body |-> Overlay(@.body, code[p] \o <<10>>)]]
    /\ pc' = [pc EXCEPT ![p] = "popen"]
    /\ UNCHANGED <<codeB64, testCasesJson, code, clock, compileStart, compileEnd, compilerInput, pipe,
                   compileOutput, compileStatus, compilationTimeMs, out, exitCode>>

\* lines 131-139: take the start time, popen the compile command
StartCompiler(p) ==
    /\ pc[p] = "popen"
    /\ compileStart' = [compileStart EXCEPT ![p] = clock]
    /\ \E started \in BOOLEAN :
          IF started
          THEN /\ pc' = [pc EXCEPT ![p] = "compiling"]
               /\ UNCHANGED <<out, exitCode>>
          ELSE Fail(p, FailedToStartCompiler, 0)
    /\ UNCHANGED <<codeB64, testCasesJson, code, fs, clock, compileEnd, compilerInput, pipe,
                   compileOutput, compileStatus, compilationTimeMs>>

\* The child of popen: g++ reads sourceFile as it is now, prints, writes execFile
\* when it succeeds, and exits.
CompilerRun(p) ==
    /\ pc[p] = "compiling"
    /\ compilerInput' = [compilerInput EXCEPT ![p] = fs[sourceFile(p)]]
    /\ \E r \in ToolchainResults :
          /\ pipe' = [pipe EXCEPT ![p] = r]
          /\ fs' = IF r.status = 0
                   THEN [fs EXCEPT ![execFile(p)] = fs[sourceFile(p)]]
                   ELSE fs
    /\ pc' = [pc EXCEPT ![p] = "wait"]
    /\ UNCHANGED <<codeB64, testCasesJson, code, clock, compileStart, compileEnd, compileOutput,
                   compileStatus, compilationTimeMs, out, exitCode>>

\* lines 141-155: read the pipe to its end, pclose, take the end time, report a
\* failed compilation
WaitCompiler(p) ==
    /\ pc[p] = "wait"
    /\ \E elapsed \in 0..MaxCompileMs :
          LET output == ReadPipe(pipe[p].output)
              status == pipe[p].status
              ms == (clock + elapsed) - compileStart[p]
          IN  /\ clock' = clock + elapsed
              /\ compileEnd' = [compileEnd EXCEPT ![p] = clock + elapsed]
              /\ compileOutput' = [compileOutput EXCEPT ![p] = output]
              /\ compileStatus' = [compileStatus EXCEPT ![p] = status]
              /\ compilationTimeMs' = [compilationTimeMs EXCEPT ![p] = ms]
              /\ IF status # 0
                 THEN Fail(p, output, ms)
                 ELSE /\ pc' = [pc EXCEPT ![p] = "report"]
                      /\ UNCHANGED <<out, exitCode>>
    /\ UNCHANGED <<codeB64, testCasesJson, code, fs, compileStart, compilerInput, pipe>>

\* lines 157-169: no test is run; report the compilation as accepted
Report(p) ==
    /\ pc[p] = "report"
    /\ \E cgroup \in CgroupFiles, status \in ProcStatusFiles :
          out' = [out EXCEPT ![p] = Append(@,
                    [status |-> "accepted",
                     tests_passed |-> 0,
                     tests_total |-> 0,
                     compilation_time_ms |-> compilationTimeMs[p],
                     execution_time_ms |-> 0,
                     total_execution_time_ms |-> 0,
                     memory_used_kb |-> getMemoryUsage(cgroup, status),
                     test_results |-> << >>])]
    /\ exitCode' = [exitCode EXCEPT ![p] = 0]
    /\ pc' = [pc EXCEPT ![p] = "done"]
    /\ UNCHANGED <<codeB64, testCasesJson, code, fs, clock, compileStart, compileEnd,
                   compilerInput, pipe, compileOutput, compileStatus, compilationTimeMs>>

Next ==
    \E p \in Procs :
        \/ Start(p)
        \/ OpenSource(p)
        \/ WriteSource(p)
        \/ StartCompiler(p)
        \/ CompilerRun(p)
        \/ WaitCompiler(p)
        \/ Report(p)

Spec == Init /\ [][Next]_vars
SpecDecode == InitDecode /\ [][Next]_vars
SpecShared == InitShared /\ [][Next]_vars

----------------------------------------------------------------------------
(* Vocabulary of the properties                                            *)

Statuses ==
    {"compilation_error", "accepted", "wrong_answer", "runtime_error", "timeout",
     "memory_limit_exceeded"}

Running == {p \in Procs : pc[p] # "idle"}
Done(p) == pc[p] = "done"

\* The g++ child of p has exited, with a zero or a non-zero status.
CompilerSucceeded(p) == pipe[p].ran /\ pipe[p].status = 0
CompilerFailed(p) == pipe[p].ran /\ pipe[p].status # 0

\* What a JSON reader makes of the text between the quotes of a string.
UnescapeChar(c) ==
    CASE c = 110 -> 10
      [] c = 114 -> 13
      [] c = 116 -> 9
      [] OTHER   -> c

\* s[i] is a backslash that opens an escape: an even number of backslashes
\* stands right before it.
EscapeStart(s, i) ==
    LET others == {j \in 1..(i - 1) : s[j] # 92}
        last == IF others = {} THEN 0 ELSE CHOOSE j \in others : \A k \in others : k <= j
    IN  s[i] = 92 /\ (i - 1 - last) % 2 = 0

RECURSIVE JsonUnescape(_)
JsonUnescape(s) ==
    IF Len(s) <= 1 THEN s
    ELSE IF Len(s) = 2
         THEN IF s[1] = 92 THEN <<UnescapeChar(s[2])>> ELSE s
    ELSE LET half == Len(s) \div 2
             cut == IF EscapeStart(s, half) THEN half + 1 ELSE half
         IN  JsonUnescape(SubSeq(s, 1, cut)) \o JsonUnescape(SubSeq(s, cut + 1, Len(s)))

----------------------------------------------------------------------------
(* C1: every path of a judge run writes exactly one record to standard     *)
(* output and then returns 0: a process never holds more than one record,  *)
(* holds one exactly when it has returned, and has returned 0 when it has  *)
(* returned at all.                                                        *)
C1_OneRecordThenExitZero ==
    \A p \in Running :
        /\ Len(out[p]) <= 1
        /\ Done(p) <=> Len(out[p]) = 1
        /\ exitCode[p] = IF Done(p) THEN 0 ELSE NoExit

\* A run that went through every stage and reported.
C1_Witness ==
    \E p \in Running :
        Done(p) /\ CompilerSucceeded(p) /\ Len(out[p]) = 1 /\ exitCode[p] = 0

----------------------------------------------------------------------------
(* C3: when the compiler exits with a non-zero status the run ends with    *)
(* one compilation_error record with tests_passed = tests_total = 0, whose *)
(* error_message reads back as the output main captured (the whole output  *)
(* of the compiler when that holds no NUL), whose compilation_time_ms is   *)
(* compileEnd - compileStart, and the reporting stage is never reached.    *)
C3_CompileFailureShortCircuits ==
    \A p \in Running :
        CompilerFailed(p) =>
            /\ pc[p] \in {"wait", "done"}
            /\ Done(p) =>
                  /\ Len(out[p]) = 1
                  /\ out[p][1].status = "compilation_error"
                  /\ out[p][1].tests_passed = 0
                  /\ out[p][1].tests_total = 0
                  /\ "test_results" \notin DOMAIN out[p][1]
                  /\ JsonUnescape(out[p][1].error_message) = compileOutput[p]
                  /\ (\A i \in DOMAIN pipe[p].output : pipe[p].output[i] # 0)
                        => JsonUnescape(out[p][1].error_message) = pipe[p].output
                  /\ out[p][1].compilation_time_ms = compileEnd[p] - compileStart[p]
                  /\ out[p][1].execution_time_ms = 0

\* A failed compilation that took time and whose diagnostics need escaping.
C3_Witness ==
    \E p \in Running :
        /\ Done(p) /\ CompilerFailed(p)
        /\ \E i \in DOMAIN compileOutput[p] : compileOutput[p][i] = 92
        /\ out[p][1].compilation_time_ms > 0

----------------------------------------------------------------------------
(* C9: in every record written, error_message is present exactly when the  *)
(* status is compilation_error, and the status is one of the six statuses  *)
(* of the output format.                                                   *)
C9_ErrorMessageIffCompilationError ==
    \A p \in Running : \A i \in DOMAIN out[p] :
        /\ "error_message" \in DOMAIN out[p][i] <=> out[p][i].status = "compilation_error"
        /\ out[p][i].status \in Statuses

\* The record of a successful compilation: accepted, without error_message.
C9_Witness ==
    \E p \in Running :
        /\ Len(out[p]) = 1
        /\ out[p][1].status = "accepted"
        /\ "error_message" \notin DOMAIN out[p][1]
        /\ CompilerSucceeded(p)

----------------------------------------------------------------------------
(* C10: base64_decode reports no error.  It decodes the longest prefix of  *)
(* its input made of alphabet characters, '=' ending the prefix like any   *)
(* other character outside the alphabet, into floor(6n/8) bytes for a      *)
(* prefix of n characters; main goes on with that result, and the "No code *)
(* provided" record is never written for a non-empty CODE.                 *)

\* Length of the longest prefix of s made of alphabet characters
AlphabetPrefixLen(s) ==
    LET bad == {i \in 1..Len(s) : \A k \in 1..64 : base64_chars[k] # s[i]}
    IN  IF bad = {} THEN Len(s) ELSE (CHOOSE i \in bad : \A j \in bad : i <= j) - 1

\* Bit j (from 0, most significant first) of the 6-bit digits of s laid end to end
DigitBit(s, j) ==
    LET digit == CHOOSE k \in 0..63 : base64_chars[k + 1] = s[(j \div 6) + 1]
    IN  (digit \div (2^(5 - (j % 6)))) % 2

\* Byte k (from 1) of those bits
DigitByte(s, k) ==
    LET at(b) == DigitBit(s, 8 * (k - 1) + b)
    IN  128 * at(0) + 64 * at(1) + 32 * at(2) + 16 * at(3)
            + 8 * at(4) + 4 * at(5) + 2 * at(6) + at(7)

PrefixDecoding(s) ==
    LET n == AlphabetPrefixLen(s)
    IN  [k \in 1..((6 * n) \div 8) |-> DigitByte(s, k)]

C10_DecodeStopsAtFirstForeignCharacter ==
    \A p \in Running :
        (codeB64[p].set /\ codeB64[p].val # << >>) =>
            /\ pc[p] # "start" =>
                  /\ code[p] = PrefixDecoding(codeB64[p].val)
                  /\ Len(code[p]) = (6 * AlphabetPrefixLen(codeB64[p].val)) \div 8
            /\ \A i \in DOMAIN out[p] :
                  "error_message" \in DOMAIN out[p][i]
                      => out[p][i].error_message # escapeJson(NoCodeProvided)

\* A CODE of MaxLen characters with a '=' in the middle and alphabet characters
\* after it went through the compiler and was accepted.
C10_Witness ==
    \E p \in Running :
        /\ Done(p) /\ CompilerSucceeded(p)
        /\ Len(codeB64[p].val) = MaxLen
        /\ AlphabetPrefixLen(codeB64[p].val) = 3
        /\ codeB64[p].val[4] = 61
        /\ T[codeB64[p].val[MaxLen]] # -1
        /\ Len(code[p]) = 2
        /\ out[p][1].status = "accepted"

----------------------------------------------------------------------------
(* C2: a CODE that is absent, empty or not valid base64 is reported as     *)
(* compilation_error with tests_passed = tests_total = 0 and both timings  *)
(* 0.                                                                      *)

\* RFC 4648 base64: whole groups of four characters, alphabet characters followed
\* by at most two '=' at the very end.
WellFormedBase64(s) ==
    /\ Len(s) % 4 = 0
    /\ \E pad \in 0..2 :
          /\ pad < Len(s)
          /\ \A i \in 1..(Len(s) - pad) : T[s[i]] # -1
          /\ \A i \in (Len(s) - pad + 1)..Len(s) : s[i] = 61

C2_BadPayloadIsCompilationError ==
    \A p \in Running :
        (Done(p) /\ (~codeB64[p].set \/ ~WellFormedBase64(codeB64[p].val))) =>
            /\ Len(out[p]) = 1
            /\ out[p][1].status = "compilation_error"
            /\ out[p][1].tests_passed = 0
            /\ out[p][1].tests_total = 0
            /\ out[p][1].compilation_time_ms = 0
            /\ out[p][1].execution_time_ms = 0

----------------------------------------------------------------------------
(* C4: when the compilation succeeds, the reported tests_total is the      *)
(* length of the reported test_results and the number of test cases in     *)
(* TEST_CASES.                                                             *)
C4_TestsTotalCountsSuppliedCases ==
    \A p \in Running :
        (Done(p) /\ CompilerSucceeded(p) /\ testCasesJson[p].wellFormed) =>
            /\ out[p][1].tests_total = Len(out[p][1].test_results)
            /\ out[p][1].tests_total = Len(testCasesJson[p].cases)

----------------------------------------------------------------------------
(* C5: when the compilation succeeds, the reported status is accepted if   *)
(* every test case is accepted and otherwise the verdict of the first test *)
(* case, in the order of TEST_CASES, that is not.                          *)
FirstFailure(cases) ==
    LET failed == {k \in DOMAIN cases : cases[k].outcome # "accepted"}
    IN  IF failed = {} THEN "accepted"
        ELSE cases[CHOOSE k \in failed : \A j \in failed : k <= j].outcome

C5_StatusIsFirstFailure ==
    \A p \in Running :
        (Done(p) /\ CompilerSucceeded(p) /\ testCasesJson[p].wellFormed) =>
            out[p][1].status = FirstFailure(testCasesJson[p].cases)

----------------------------------------------------------------------------
(* C6: a test case that fails does not stop the run: every test case after *)
(* it has its own verdict in the reported test_results.                    *)
C6_LaterTestsStillReported ==
    \A p \in Running :
        (Done(p) /\ CompilerSucceeded(p) /\ testCasesJson[p].wellFormed) =>
            \A k \in DOMAIN testCasesJson[p].cases :
                testCasesJson[p].cases[k].outcome \notin {"accepted", "wrong_answer"} =>
                    \A j \in (k + 1)..Len(testCasesJson[p].cases) :
                        /\ j \in DOMAIN out[p][1].test_results
                        /\ out[p][1].test_results[j].status \in Verdicts

----------------------------------------------------------------------------
(* C7: a malformed TEST_CASES is reported like a source that cannot be     *)
(* decoded: compilation_error with tests_passed = tests_total = 0, even    *)
(* when the source compiles.                                               *)
C7_MalformedTestsAreCompilationError ==
    \A p \in Running :
        (Done(p) /\ testCasesJson[p].set /\ ~testCasesJson[p].wellFormed) =>
            /\ out[p][1].status = "compilation_error"
            /\ out[p][1].tests_passed = 0
            /\ out[p][1].tests_total = 0

----------------------------------------------------------------------------
(* C8: with two judge processes on one filesystem, the compiler of each    *)
(* process reads the source this process wrote (its own code behind the    *)
(* scaffold), whatever the interleaving.                                   *)
C8_CompilerReadsOwnSource ==
    \A p \in Running :
        pipe[p].ran => compilerInput[p] = WrappedSource(code[p])

====
